---- MODULE Spec2Model ----
(***************************************************************************)
(* todo-cli: the task store (src/src/task.rs, src/src/main.rs).            *)
(*                                                                         *)
(* The file system is a partial function from paths to byte sequences.     *)
(* Every handler of main.rs (add, list, remove, progress, edit) is one     *)
(* action that takes the argv vector and the lines waiting on stdin and    *)
(* runs the handler to its end.  Strings are UTF-8 byte sequences, i64     *)
(* values are 64-bit two's-complement words kept as four 16-bit limbs      *)
(* (most significant first), so that the arithmetic wraps or overflows     *)
(* exactly where the program's does.                                       *)
(***************************************************************************)
EXTENDS Integers, Sequences, FiniteSets, TLC

(***************************************************************************)
(* Strings                                                                 *)
(***************************************************************************)

\* The ASCII code of the characters the inputs are written with.
CharCode ==
    [c \in {"0", "1", "2", "3", "4", "5", "6", "7", "8", "9"} |->
        CASE c = "0" -> 48 [] c = "1" -> 49 [] c = "2" -> 50 [] c = "3" -> 51
          [] c = "4" -> 52 [] c = "5" -> 53 [] c = "6" -> 54 [] c = "7" -> 55
          [] c = "8" -> 56 [] c = "9" -> 57]
    @@ (" " :> 32) @@ ("%" :> 37) @@ ("+" :> 43) @@ ("-" :> 45) @@ ("." :> 46)
    @@ ("/" :> 47) @@ (":" :> 58) @@ ("_" :> 95)
    @@ ("a" :> 97) @@ ("b" :> 98) @@ ("c" :> 99) @@ ("d" :> 100) @@ ("e" :> 101)
    @@ ("g" :> 103) @@ ("h" :> 104) @@ ("i" :> 105) @@ ("k" :> 107) @@ ("l" :> 108)
    @@ ("m" :> 109) @@ ("o" :> 111) @@ ("p" :> 112) @@ ("r" :> 114) @@ ("s" :> 115)
    @@ ("t" :> 116) @@ ("v" :> 118) @@ ("x" :> 120)

\* A string literal: the bytes of the characters cs.
Str(cs) == [i \in 1..Len(cs) |-> CharCode[cs[i]]]

Ch(c) == CharCode[c]
\* let x = v; ... : the value of the function [x \in {v} |-> ...] at v, the
\* only element of its domain
Only(f) == f[CHOOSE x \in DOMAIN f : TRUE]

\* '0'..'9'
IsDigit(b) == b >= 48 /\ b <= 57

DigitVal(b) == b - 48

\* White space as str::trim and the regex class \s see it (the ASCII part).
IsSpace(b) == b \in {9, 10, 11, 12, 13, 32}

SubStr(s, from, to) == [i \in 1..(to - from + 1) |-> s[from + i - 1]]

\* str::trim
Trim(s) ==
    Only([keep \in {{i \in 1..Len(s) : ~IsSpace(s[i])}} |->
        IF keep = {} THEN <<>>
        ELSE SubStr(s, CHOOSE i \in keep : \A j \in keep : i <= j,
                       CHOOSE i \in keep : \A j \in keep : i >= j)])

\* [String]::join(" ")
RECURSIVE Join(_)
Join(parts) ==
    IF Len(parts) = 0 THEN <<>>
    ELSE IF Len(parts) = 1 THEN parts[1]
    ELSE parts[1] \o <<Ch(" ")>> \o Join(Tail(parts))

(***************************************************************************)
(* i64: four 16-bit limbs, two's complement                                *)
(***************************************************************************)

LimbBase == 2^16

Limbs == 1..4

\* Unsigned sum of two words and a carry: the low 64 bits and the carry out.
LimbsAdd(a, b, cin) ==
    LET s4 == a[4] + b[4] + cin
        s3 == a[3] + b[3] + (s4 \div LimbBase)
        s2 == a[2] + b[2] + (s3 \div LimbBase)
        s1 == a[1] + b[1] + (s2 \div LimbBase)
    IN  [limbs |-> <<s1 % LimbBase, s2 % LimbBase, s3 % LimbBase, s4 % LimbBase>>,
         carry |-> s1 \div LimbBase]

\* Unsigned product of a word and a small factor (c < 2^15): the low 64 bits
\* and what was carried out of them.
LimbsMul(a, c) ==
    LET p4 == a[4] * c
        p3 == a[3] * c + (p4 \div LimbBase)
        p2 == a[2] * c + (p3 \div LimbBase)
        p1 == a[1] * c + (p2 \div LimbBase)
    IN  [limbs |-> <<p1 % LimbBase, p2 % LimbBase, p3 % LimbBase, p4 % LimbBase>>,
         carry |-> p1 \div LimbBase]

LimbsNot(a) == [i \in Limbs |-> LimbBase - 1 - a[i]]

I64IsNeg(a) == a[1] >= LimbBase \div 2

\* The i64 of a model integer (|n| < 2^31).
I64(n) ==
    IF n >= 0 THEN <<0, 0, n \div LimbBase, n % LimbBase>>
    ELSE LimbsNot(<<0, 0, (-(n + 1)) \div LimbBase, (-(n + 1)) % LimbBase>>)

I64Max == <<LimbBase \div 2 - 1, LimbBase - 1, LimbBase - 1, LimbBase - 1>>

I64Min == <<LimbBase \div 2, 0, 0, 0>>
\* -a, wrapped
I64Neg(a) == LimbsAdd(LimbsNot(a), <<0, 0, 0, 0>>, 1).limbs

\* a + b: the wrapped sum, and whether the signed sum left the i64 range.
I64Add(a, b) ==
    Only([r \in {LimbsAdd(a, b, 0).limbs} |->
        [val |-> r, ovf |-> I64IsNeg(a) = I64IsNeg(b) /\ I64IsNeg(r) # I64IsNeg(a)]])

\* a - b
I64Sub(a, b) ==
    Only([r \in {LimbsAdd(a, LimbsNot(b), 1).limbs} |->
        [val |-> r, ovf |-> I64IsNeg(a) # I64IsNeg(b) /\ I64IsNeg(r) # I64IsNeg(a)]])

\* a * c for a >= 0 and a small positive constant c
I64MulConst(a, c) ==
    Only([r \in {LimbsMul(a, c)} |->
        [val |-> r.limbs, ovf |-> r.carry # 0 \/ I64IsNeg(r.limbs)]])

\* Signed order: the sign bit flipped, then limb by limb.
I64Key(a) == <<(a[1] + LimbBase \div 2) % LimbBase, a[2], a[3], a[4]>>

I64Lt(a, b) ==
    Only([ka \in {I64Key(a)} |-> Only([kb \in {I64Key(b)} |->
        \E i \in Limbs : ka[i] < kb[i] /\ \A j \in 1..(i - 1) : ka[j] = kb[j]])])

I64Le(a, b) == a = b \/ I64Lt(a, b)

I64Ge(a, b) == ~I64Lt(a, b)

\* The model integer of an i64 that has one (|v| < 2^31).
I64Fits(a) ==
    \/ a[1] = 0 /\ a[2] = 0 /\ a[3] < LimbBase \div 2
    \/ a[1] = LimbBase - 1 /\ a[2] = LimbBase - 1 /\ a[3] >= LimbBase \div 2

I64ToInt(a) ==
    IF ~I64IsNeg(a) THEN a[3] * LimbBase + a[4]
    ELSE Only([n \in {LimbsNot(a)} |-> -(n[3] * LimbBase + n[4]) - 1])

(***************************************************************************)
(* Codec (task.rs)                                                         *)
(***************************************************************************)

\* size_of::<i64>() and size_of::<usize>() on a 64-bit host
WordBytes == 8

Byte == 0..255

\* i64::to_le_bytes in the place of to_be_bytes: the low byte first
to_le_bytes(v) ==
    [i \in 1..WordBytes |->
        IF i % 2 = 1 THEN v[(WordBytes - i + 1) \div 2] % 256
        ELSE v[(WordBytes - i + 2) \div 2] \div 256]

\* i64::to_be_bytes
to_be_bytes(v) ==
    [i \in 1..WordBytes |->
        IF i % 2 = 1 THEN v[(i + 1) \div 2] \div 256 ELSE v[i \div 2] % 256]

\* i64::from_be_bytes / usize::from_be_bytes: the 64-bit word of eight bytes
from_be_bytes(b) == [i \in Limbs |-> b[2 * i - 1] * 256 + b[2 * i]]

\* A usize that is a length of the model (a length prefix read from a file may
\* be any 64-bit word; the lengths the program writes are small).
UsizeWord(n) == <<0, 0, n \div LimbBase, n % LimbBase>>

UsizeIsSmall(w) == w[1] = 0 /\ w[2] = 0 /\ w[3] < LimbBase \div 2

UsizeToInt(w) == w[3] * LimbBase + w[4]

\* std::str::from_utf8 succeeds on the bytes b[i..]
RECURSIVE Utf8From(_, _)
Utf8From(b, i) ==
    LET n == Len(b)
        Cont(k) == k <= n /\ b[k] >= 128 /\ b[k] <= 191
        In(k, lo, hi) == k <= n /\ b[k] >= lo /\ b[k] <= hi
    IN  IF i > n THEN TRUE
        ELSE IF b[i] <= 127 THEN Utf8From(b, i + 1)
        ELSE IF b[i] >= 194 /\ b[i] <= 223 THEN Cont(i + 1) /\ Utf8From(b, i + 2)
        ELSE IF b[i] = 224 THEN In(i + 1, 160, 191) /\ Cont(i + 2) /\ Utf8From(b, i + 3)
        ELSE IF b[i] = 237 THEN In(i + 1, 128, 159) /\ Cont(i + 2) /\ Utf8From(b, i + 3)
        ELSE IF b[i] >= 225 /\ b[i] <= 239
             THEN Cont(i + 1) /\ Cont(i + 2) /\ Utf8From(b, i + 3)
        ELSE IF b[i] = 240
             THEN In(i + 1, 144, 191) /\ Cont(i + 2) /\ Cont(i + 3) /\ Utf8From(b, i + 4)
        ELSE IF b[i] >= 241 /\ b[i] <= 243
             THEN Cont(i + 1) /\ Cont(i + 2) /\ Cont(i + 3) /\ Utf8From(b, i + 4)
        ELSE IF b[i] = 244
             THEN In(i + 1, 128, 143) /\ Cont(i + 2) /\ Cont(i + 3) /\ Utf8From(b, i + 4)
        ELSE FALSE

from_utf8_ok(b) == Utf8From(b, 1)

\* The error of a read that found too few bytes, or bytes that are no UTF-8
Short == [ok |-> FALSE]

\* read: `size` bytes of the stream `bytes` from offset `pos` (0-based), or the
\* error of read_exact when fewer are left.
read(bytes, pos, size) ==
    IF pos + size > Len(bytes) THEN Short
    ELSE [ok |-> TRUE, buf |-> SubSeq(bytes, pos + 1, pos + size), pos |-> pos + size]

read_i64(bytes, pos) ==
    Only([r \in {read(bytes, pos, WordBytes)} |->
        IF r.ok THEN [ok |-> TRUE, val |-> from_be_bytes(r.buf), pos |-> r.pos]
        ELSE Short])

read_usize(bytes, pos) == read_i64(bytes, pos)

\* read_str: a length that is no length of the model is longer than any file
\* of the model, so the read is short.
read_str(bytes, pos, size) ==
    IF ~UsizeIsSmall(size) THEN Short
    ELSE Only([r \in {read(bytes, pos, UsizeToInt(size))} |->
             IF r.ok /\ from_utf8_ok(r.buf)
             THEN [ok |-> TRUE, val |-> r.buf, pos |-> r.pos]
             ELSE Short])

\* Task::with_details
with_details(id, progress, due, estimated_time, name, description) ==
    [id |-> id, progress |-> progress, deadline |-> due,
     estimated_time |-> estimated_time, name |-> name, description |-> description]

\* Task::new: the id given is not stored, every task has id 0
task_new(id) == with_details(I64(0), I64(0), I64(0), I64(0), <<>>, <<>>)

\* Task::with_id
with_id(id) == with_details(id, I64(0), I64(0), I64(0), <<>>, <<>>)

\* Task::from: one record decoded from offset pos, or the error of the first
\* read that fails.
TaskFrom(bytes, pos) ==
    Only([id \in {read_i64(bytes, pos)} |-> IF ~id.ok THEN Short ELSE
    Only([progress \in {read_i64(bytes, id.pos)} |-> IF ~progress.ok THEN Short ELSE
    Only([due \in {read_i64(bytes, progress.pos)} |-> IF ~due.ok THEN Short ELSE
    Only([est \in {read_i64(bytes, due.pos)} |-> IF ~est.ok THEN Short ELSE
    Only([name_len \in {read_usize(bytes, est.pos)} |-> IF ~name_len.ok THEN Short ELSE
    Only([name \in {read_str(bytes, name_len.pos, name_len.val)} |->
        IF ~name.ok THEN Short ELSE
    Only([desc_len \in {read_usize(bytes, name.pos)} |-> IF ~desc_len.ok THEN Short ELSE
    Only([desc \in {read_str(bytes, desc_len.pos, desc_len.val)} |->
        IF ~desc.ok THEN Short ELSE
        [ok |-> TRUE,
         task |-> with_details(id.val, progress.val, due.val, est.val, name.val, desc.val),
         pos |-> desc.pos]])])])])])])])])

\* Task::serialize
serialize(t) ==
    to_be_bytes(t.id) \o to_be_bytes(t.progress) \o to_be_bytes(t.deadline)
    \o to_be_bytes(t.estimated_time)
    \o to_be_bytes(UsizeWord(Len(t.name))) \o t.name
    \o to_be_bytes(UsizeWord(Len(t.description))) \o t.description

(***************************************************************************)
(* Parsing (main.rs): the regular expressions and the number parsers       *)
(***************************************************************************)

\* An Option<String>
None == [some |-> FALSE, v |-> <<>>]

Some(x) == [some |-> TRUE, v |-> x]

\* The end of the run of digits of s that starts at p (p itself when s[p] is
\* no digit).
DigitsEnd(s, p) ==
    Only([stop \in {{i \in p..Len(s) : ~IsDigit(s[i])}} |->
        IF stop = {} THEN Len(s) + 1 ELSE CHOOSE i \in stop : \A j \in stop : i <= j])

\* The end of the run of white space of s that starts at p.
SpaceEnd(s, p) ==
    Only([stop \in {{i \in p..Len(s) : ~IsSpace(s[i])}} |->
        IF stop = {} THEN Len(s) + 1 ELSE CHOOSE i \in stop : \A j \in stop : i <= j])

\* One optional group (\d+)<unit> of the duration expression, tried at p: the
\* capture and the place after it (p itself when the group does not match).
UnitGroup(s, p, unit) ==
    Only([e \in {DigitsEnd(s, p)} |->
        IF e > p /\ e <= Len(s) /\ s[e] = Ch(unit)
        THEN [cap |-> Some(SubStr(s, p, e - 1)), next |-> e + 1]
        ELSE [cap |-> None, next |-> p]])
\* The \s* that ends a group that matched
AfterGroup(s, g) == IF g.cap.some THEN SpaceEnd(s, g.next) ELSE g.next

\* ^(?:(\d+)h\s*)?(?:(\d+)m\s*)?(?:(\d+)s)?$ : the captures, or no match.
\* A group that matches is taken: what follows a run of digits decides the
\* group, so no other way of matching exists.
time_re(s) ==
    Only([h \in {UnitGroup(s, 1, "h")} |->
    Only([m \in {UnitGroup(s, AfterGroup(s, h), "m")} |->
    Only([sc \in {UnitGroup(s, AfterGroup(s, m), "s")} |->
        IF sc.next = Len(s) + 1
        THEN [ok |-> TRUE, caps |-> <<h.cap, m.cap, sc.cap>>]
        ELSE [ok |-> FALSE, caps |-> <<>>]])])])

\* ^(\d+)%$
percent_re(s) ==
    Only([e \in {DigitsEnd(s, 1)} |->
        IF e > 1 /\ e = Len(s) /\ s[e] = Ch("%")
        THEN [ok |-> TRUE, caps |-> <<Some(SubStr(s, 1, e - 1))>>]
        ELSE [ok |-> FALSE, caps |-> <<>>]])

\* \d{4}-\d{2}-\d{2} at s[p..p+9]
IsDateAt(s, p) ==
    /\ p + 9 <= Len(s)
    /\ \A i \in {0, 1, 2, 3, 5, 6, 8, 9} : IsDigit(s[p + i])
    /\ \A i \in {4, 7} : s[p + i] = Ch("-")

\* \d{2}:\d{2}:\d{2} at s[p..p+7]
IsTimeAt(s, p) ==
    /\ p + 7 <= Len(s)
    /\ \A i \in {0, 1, 3, 4, 6, 7} : IsDigit(s[p + i])
    /\ \A i \in {2, 5} : s[p + i] = Ch(":")

\* ^(?:(\d{4}-\d{2}-\d{2})(?: (\d{2}:\d{2}:\d{2}))?|(\d{2}:\d{2}:\d{2}))$
due_re(s) ==
    Only([date \in {IsDateAt(s, 1)} |->
        IF Len(s) = 10 /\ date
        THEN [ok |-> TRUE, caps |-> <<Some(s), None, None>>]
        ELSE IF Len(s) = 19 /\ date /\ s[11] = Ch(" ") /\ IsTimeAt(s, 12)
        THEN [ok |-> TRUE,
              caps |-> <<Some(SubStr(s, 1, 10)), Some(SubStr(s, 12, 19)), None>>]
        ELSE IF Len(s) = 8 /\ IsTimeAt(s, 1)
        THEN [ok |-> TRUE, caps |-> <<None, None, Some(s)>>]
        ELSE [ok |-> FALSE, caps |-> <<>>]])

\* The same expression with the trailing ? of handle_edit: the empty line
\* matches too, with no group set.
due_re_edit(s) ==
    IF Len(s) = 0 THEN [ok |-> TRUE, caps |-> <<None, None, None>>] ELSE due_re(s)

\* (.*) : unanchored, it matches every line at its start and captures the line.
any_re(s) == [ok |-> TRUE, caps |-> <<Some(s)>>]

\* Decimal digits s[i..] added to the unsigned word acc; not ok when the value
\* does not fit 64 bits.
RECURSIVE ParseMag(_, _, _)
ParseMag(s, i, acc) ==
    IF i > Len(s) THEN [ok |-> TRUE, val |-> acc]
    ELSE IF ~IsDigit(s[i]) THEN [ok |-> FALSE, val |-> acc]
    ELSE Only([t \in {LimbsMul(acc, 10)} |->
         Only([u \in {LimbsAdd(t.limbs, <<0, 0, 0, DigitVal(s[i])>>, 0)} |->
             IF t.carry # 0 \/ u.carry # 0 THEN [ok |-> FALSE, val |-> acc]
             ELSE ParseMag(s, i + 1, u.limbs)])])

\* str::parse::<i64>: an optional sign and at least one digit, in range.
parse_i64(s) ==
    Only([first \in {IF Len(s) > 0 THEN s[1] ELSE 0} |->
    Only([from \in {IF first \in {Ch("+"), Ch("-")} THEN 2 ELSE 1} |->
    Only([mag \in {ParseMag(s, from, <<0, 0, 0, 0>>)} |->
        IF from > Len(s) \/ ~mag.ok THEN [ok |-> FALSE, val |-> I64(0)]
        ELSE IF first # Ch("-")
        THEN [ok |-> ~I64IsNeg(mag.val), val |-> mag.val]
        ELSE [ok |-> ~I64IsNeg(mag.val) \/ mag.val = I64Min,
              val |-> I64Neg(mag.val)]])])])

(***************************************************************************)
(* Dates and the clock (chrono, as main.rs uses it)                        *)
(***************************************************************************)

\* The two decimal digits s[p], s[p+1], and the four s[p..p+3]
Num2(s, p) == DigitVal(s[p]) * 10 + DigitVal(s[p + 1])

Num4(s, p) == Num2(s, p) * 100 + Num2(s, p + 2)

IsLeap(y) == y % 4 = 0 /\ (y % 100 # 0 \/ y % 400 = 0)

DaysInMonth(y, m) ==
    IF m = 2 THEN (IF IsLeap(y) THEN 29 ELSE 28)
    ELSE IF m \in {4, 6, 9, 11} THEN 30 ELSE 31

\* Days from 1970-01-01 to the civil date y-m-d (proleptic Gregorian).
DaysFromCivil(y, m, d) ==
    LET yy  == IF m <= 2 THEN y - 1 ELSE y
        era == yy \div 400
        yoe == yy - era * 400
        mp  == IF m > 2 THEN m - 3 ELSE m + 9
        doy == (153 * mp + 2) \div 5 + d - 1
        doe == yoe * 365 + yoe \div 4 - yoe \div 100 + doy
    IN  era * 146097 + doe - 719468

\* NaiveDate::parse_from_str(date, "%Y-%m-%d") on a capture of the due
\* expression: the day number, or the error of a date that does not exist.
parse_date(s) ==
    Only([y \in {Num4(s, 1)} |-> Only([m \in {Num2(s, 6)} |-> Only([d \in {Num2(s, 9)} |->
        IF m >= 1 /\ m <= 12 /\ d >= 1 /\ d <= DaysInMonth(y, m)
        THEN [ok |-> TRUE, val |-> DaysFromCivil(y, m, d)]
        ELSE [ok |-> FALSE, val |-> 0]])])])

\* NaiveTime::parse_from_str(time, "%H:%M:%S"): the second of the day (a
\* second of 60 is read as a leap second, which counts as second 59).
parse_time(s) ==
    Only([h \in {Num2(s, 1)} |-> Only([m \in {Num2(s, 4)} |-> Only([sc \in {Num2(s, 7)} |->
        IF h < 24 /\ m < 60 /\ sc <= 60
        THEN [ok |-> TRUE, val |-> h * 3600 + m * 60 + (IF sc = 60 THEN 59 ELSE sc)]
        ELSE [ok |-> FALSE, val |-> 0]])])])

\* The local time zone: a fixed offset, in seconds east of UTC.
TzOffset == 60 * 60

\* n * 86400 as an i64
I64Days(n) ==
    Only([mag \in {I64MulConst(I64MulConst(I64(IF n < 0 THEN -n ELSE n), 3600).val, 24).val}
          |-> IF n < 0 THEN I64Neg(mag) ELSE mag])

\* NaiveDateTime::new(date, time).and_local_timezone(Local).unwrap().timestamp()
local_timestamp(day, sec) == I64Add(I64Days(day), I64(sec - TzOffset)).val

\* The clock: Local::now(), as a local date and a second of that day.  One
\* run of the model reads one instant.
NowDay == DaysFromCivil(2026, 11, 1)

NowSec == 12 * 3600

\* Local::now().timestamp()
Now == local_timestamp(NowDay, NowSec)

(***************************************************************************)
(* f32, as parse_progress uses it: (-1)^neg * m * 2^e with m = 0 or         *)
(* 2^23 <= m < 2^24, infinities and NaN.  Results too small to be normal   *)
(* numbers do not arise from the operands used here.                       *)
(***************************************************************************)

MantBits == 24

Pow2(n) == 2^n

F32Zero(neg) == [k |-> "fin", neg |-> neg, m |-> 0, e |-> 0]

F32Inf(neg) == [k |-> "inf", neg |-> neg, m |-> 0, e |-> 0]

F32NaN == [k |-> "nan", neg |-> FALSE, m |-> 0, e |-> 0]

\* m * 2^e with m < 2^25, brought to the normal form (m a multiple of 2 when
\* it has 25 bits), or infinity when it exceeds the largest f32.
F32Norm(neg, m, e) ==
    IF m = 0 THEN F32Zero(neg)
    ELSE LET mm == IF m >= Pow2(MantBits) THEN m \div 2 ELSE m
             ee == IF m >= Pow2(MantBits) THEN e + 1 ELSE e
         IN  IF ee + MantBits - 1 > 127 THEN F32Inf(neg)
             ELSE [k |-> "fin", neg |-> neg, m |-> mm, e |-> ee]

\* Round to nearest, ties to even: q with the remainder r of a division by d
RoundEven(q, r, d) ==
    IF 2 * r > d \/ (2 * r = d /\ q % 2 = 1) THEN q + 1 ELSE q

\* The bits of a sequence of 16-bit limbs, most significant first, without
\* leading zeros.
LimbBits(x) ==
    LET all == [i \in 1..(16 * Len(x)) |->
                   (x[(i + 15) \div 16] \div Pow2(15 - ((i - 1) % 16))) % 2]
        ones == {i \in 1..Len(all) : all[i] = 1}
    IN  IF ones = {} THEN <<>>
        ELSE SubSeq(all, CHOOSE i \in ones : \A j \in ones : i <= j, Len(all))

RECURSIVE BitsVal(_)
BitsVal(b) == IF Len(b) = 0 THEN 0 ELSE 2 * BitsVal(SubSeq(b, 1, Len(b) - 1)) + b[Len(b)]

\* The f32 nearest to the unsigned integer with the bits b.
F32OfBits(neg, b) ==
    LET n == Len(b)
    IN  IF n = 0 THEN F32Zero(neg)
        ELSE IF n <= MantBits
        THEN F32Norm(neg, BitsVal(b) * Pow2(MantBits - n), n - MantBits)
        ELSE LET m     == BitsVal(SubSeq(b, 1, MantBits))
                 guard == b[MantBits + 1]
                 rest  == \E i \in (MantBits + 2)..n : b[i] = 1
                 up    == guard = 1 /\ (rest \/ m % 2 = 1)
             IN  F32Norm(neg, IF up THEN m + 1 ELSE m, n - MantBits)

\* i64 as f32
I64ToF32(v) ==
    F32OfBits(I64IsNeg(v), LimbBits(IF I64IsNeg(v) THEN I64Neg(v) ELSE v))

\* x * c + carry on a number of any length (16-bit limbs, most significant first)
RECURSIVE BigMulAdd(_, _, _, _)
BigMulAdd(x, i, c, carry) ==
    IF i = 0 THEN (IF carry = 0 THEN <<>> ELSE <<carry>>)
    ELSE LET t == x[i] * c + carry
         IN  Append(BigMulAdd(x, i - 1, c, t \div LimbBase), t % LimbBase)

\* The number of the decimal digits s[i..] appended to acc, four digits a step.
RECURSIVE BigOfDigits(_, _, _)
BigOfDigits(s, i, acc) ==
    IF i > Len(s) THEN acc
    ELSE LET k == IF Len(s) - i + 1 >= 4 THEN 4 ELSE Len(s) - i + 1
             v == IF k = 4 THEN Num4(s, i)
                  ELSE IF k = 3 THEN DigitVal(s[i]) * 100 + Num2(s, i + 1)
                  ELSE IF k = 2 THEN Num2(s, i)
                  ELSE DigitVal(s[i])
             next == BigMulAdd(acc, Len(acc), 10^k, v)
         IN  BigOfDigits(s, i + k, next)

\* str::parse::<f32> of a run of decimal digits: the nearest f32, infinity
\* when the number is too large.
parse_f32(s) == F32OfBits(FALSE, LimbBits(BigOfDigits(s, 1, <<>>)))

\* a / 100.0
F32Div100(a) ==
    IF a.k # "fin" \/ a.m = 0 THEN a
    ELSE LET k   == IF a.m >= 100 * Pow2(17) THEN 6 ELSE 7
             num == a.m * Pow2(k)
         IN  F32Norm(a.neg, RoundEven(num \div 100, num % 100, 100), a.e - k)

\* a * b
F32Mul(a, b) ==
    LET neg == a.neg # b.neg
    IN  IF a.k = "nan" \/ b.k = "nan" THEN F32NaN
        ELSE IF a.k = "inf" \/ b.k = "inf"
        THEN (IF (a.k = "fin" /\ a.m = 0) \/ (b.k = "fin" /\ b.m = 0)
              THEN F32NaN ELSE F32Inf(neg))
        ELSE IF a.m = 0 \/ b.m = 0 THEN F32Zero(neg)
        ELSE LET half == Pow2(12)
                 a1  == a.m \div half
                 a0  == a.m % half
                 b1  == b.m \div half
                 b0  == b.m % half
                 mid == a1 * b0 + a0 * b1
                 tmp == (mid % half) * half + a0 * b0
                 lo  == tmp % Pow2(MantBits)
                 hi  == a1 * b1 + mid \div half + tmp \div Pow2(MantBits)
             IN  IF hi >= Pow2(MantBits - 1)
                 THEN F32Norm(neg, RoundEven(hi, lo, Pow2(MantBits)),
                              a.e + b.e + MantBits)
                 ELSE F32Norm(neg,
                              RoundEven(2 * hi + lo \div Pow2(MantBits - 1),
                                        lo % Pow2(MantBits - 1), Pow2(MantBits - 1)),
                              a.e + b.e + MantBits - 1)

\* f32::round: to the nearest integer, halves away from zero.  The result is
\* kept as m * 2^e with e >= 0 (m is not brought to 24 bits).
F32Round(a) ==
    IF a.k # "fin" \/ a.e >= 0 THEN a
    ELSE IF -a.e > MantBits THEN F32Zero(a.neg)
    ELSE LET d == Pow2(-a.e)
             q == a.m \div d
             r == a.m % d
         IN  [k |-> "fin", neg |-> a.neg, m |-> IF 2 * r >= d THEN q + 1 ELSE q, e |-> 0]

\* x * 2^n, the low 64 bits
LimbsShl(x, n) ==
    LimbsMul([i \in Limbs |-> IF i + n \div 16 <= 4 THEN x[i + n \div 16] ELSE 0],
             Pow2(n % 16)).limbs

\* A rounded f32 `as i64`: NaN is 0, what lies outside the range is the
\* nearest end of it.
F32ToI64(a) ==
    IF a.k = "nan" THEN I64(0)
    ELSE IF a.k = "inf" THEN (IF a.neg THEN I64Min ELSE I64Max)
    ELSE IF a.m = 0 THEN I64(0)
    ELSE IF a.e + MantBits - 1 >= 63
    THEN (IF a.neg THEN I64Min ELSE I64Max)
    ELSE Only([mag \in {LimbsShl(<<0, 0, a.m \div LimbBase, a.m % LimbBase>>, a.e)} |->
             IF a.neg THEN I64Neg(mag) ELSE mag])

(***************************************************************************)
(* The store (main.rs)                                                     *)
(***************************************************************************)

\* fs: the file system, the files that exist, each with its bytes.
\* last: the latest invocation, its command, its result and its message.
\* ids: the history of the ids of ./task_list: those that add has handed
\* out, and the number of invocations while all of them were successful adds.
VARIABLES fs, last, ids

vars == <<fs, last, ids>>

\* Path::exists
exists(f, path) == path \in DOMAIN f

DefaultPath == Str(<<".", "/", "t", "a", "s", "k", "_", "l", "i", "s", "t">>)

\* read_tasks, the loop: records are decoded until the stream position
\* reaches the file size; the first record that fails ends it in error.
RECURSIVE ReadLoop(_, _, _)
ReadLoop(bytes, pos, tasks) ==
    IF pos < Len(bytes)
    THEN Only([t \in {TaskFrom(bytes, pos)} |->
             IF t.ok THEN ReadLoop(bytes, t.pos, Append(tasks, t.task))
             ELSE [res |-> "InvalidFileFormat", tasks |-> <<>>]])
    ELSE [res |-> "Ok", tasks |-> tasks]

\* A read_tasks that stops at the first record that fails, without an error
read_tasks_lenient(f, path) ==
    IF ~exists(f, path) THEN [res |-> "NotFound", tasks |-> <<>>]
    ELSE [res |-> "Ok", tasks |-> ReadLoop(f[path], 0, <<>>).tasks]

\* read_tasks
read_tasks(f, path) ==
    IF ~exists(f, path) THEN [res |-> "NotFound", tasks |-> <<>>]
    ELSE ReadLoop(f[path], 0, <<>>)

RECURSIVE SerializeAll(_)
SerializeAll(tasks) ==
    IF Len(tasks) = 0 THEN <<>> ELSE serialize(Head(tasks)) \o SerializeAll(Tail(tasks))

\* A save_tasks that never empties the file: the records go after what it
\* holds
save_appending(f, tasks, path, overwrite) ==
    [q \in DOMAIN f \cup {path} |->
        IF q = path THEN (IF exists(f, path) THEN f[path] ELSE <<>>) \o SerializeAll(tasks)
        ELSE f[q]]

\* A save_tasks that empties the file whatever overwrite is
save_truncating(f, tasks, path, overwrite) ==
    [q \in DOMAIN f \cup {path} |-> IF q = path THEN SerializeAll(tasks) ELSE f[q]]

\* save_tasks: the file is created when missing, emptied first when
\* overwrite is set, and the records are written at its end.
save_tasks(f, tasks, path, overwrite) ==
    LET old == IF overwrite \/ ~exists(f, path) THEN <<>> ELSE f[path]
    IN  [q \in DOMAIN f \cup {path} |->
            IF q = path THEN old \o SerializeAll(tasks) ELSE f[q]]

\* fs::remove_file
remove_file(f, path) == [q \in DOMAIN f \ {path} |-> f[q]]

\* A position that is off by one: the place after the task of the id, the
\* first place after the last
position_next(tasks, target_id) ==
    Only([hit \in {{i \in 1..Len(tasks) : tasks[i].id = target_id}} |->
        IF hit = {} THEN 0
        ELSE ((CHOOSE i \in hit : \A j \in hit : i <= j) % Len(tasks)) + 1])

\* A position that falls back on the first task when none has the id
position_or_first(tasks, target_id) ==
    Only([hit \in {{i \in 1..Len(tasks) : tasks[i].id = target_id}} |->
        IF hit # {} THEN CHOOSE i \in hit : \A j \in hit : i <= j
        ELSE IF Len(tasks) = 0 THEN 0 ELSE 1])

\* tasks.iter().position(|t| t.id() == target_id): 0 when there is none
position(tasks, target_id) ==
    Only([hit \in {{i \in 1..Len(tasks) : tasks[i].id = target_id}} |->
        IF hit = {} THEN 0 ELSE CHOOSE i \in hit : \A j \in hit : i <= j])

\* A removal that drops the last element, whatever the index
pop_last(tasks, index) == [i \in 1..(Len(tasks) - 1) |-> tasks[i]]

\* Vec::swap_remove: the last element takes the place of the removed one.
swap_remove(tasks, index) ==
    [i \in 1..(Len(tasks) - 1) |-> IF i = index THEN tasks[Len(tasks)] ELSE tasks[i]]

\* A remove that fills the gap with the last element, as swap_remove does
remove_swapping(tasks, index) == swap_remove(tasks, index)

\* Vec::remove: the elements after the removed one move up.
remove(tasks, index) ==
    [i \in 1..(Len(tasks) - 1) |-> IF i < index THEN tasks[i] ELSE tasks[i + 1]]

\* The id of the first task in the place of the largest
first_id(tasks) == IF Len(tasks) = 0 THEN I64(-1) ELSE tasks[1].id

\* .max().unwrap_or(0) in the place of .max().unwrap_or(-1)
max_id_from_0(tasks) ==
    IF Len(tasks) = 0 THEN I64(0)
    ELSE tasks[CHOOSE i \in 1..Len(tasks) :
                   \A j \in 1..Len(tasks) : I64Le(tasks[j].id, tasks[i].id)].id

\* .iter().map(|t| t.id()).max().unwrap_or(-1)
max_id(tasks) ==
    IF Len(tasks) = 0 THEN I64(-1)
    ELSE tasks[CHOOSE i \in 1..Len(tasks) :
                   \A j \in 1..Len(tasks) : I64Le(tasks[j].id, tasks[i].id)].id

(***************************************************************************)
(* Prompts (main.rs, query and the closures of handle_add / handle_edit)   *)
(***************************************************************************)

\* What a closure makes of one answer: a value, an error (the prompt asks
\* again), or a panic (an arithmetic overflow in a build that checks them).
Val(v) == [st |-> "ok", val |-> v]

Err == [st |-> "err", val |-> <<>>]

Panic == [st |-> "panic", val |-> <<>>]

\* What the prompt reads: the lines waiting on stdin, trimmed, and then the
\* empty line that read_line leaves at the end of the input
Answers(lines) ==
    [i \in 1..(Len(lines) + 1) |-> IF i <= Len(lines) THEN Trim(lines[i]) ELSE <<>>]

\* query: the lines waiting on stdin are read one at a time, each trimmed and
\* tried, until one is accepted.  After the last line read_line returns the
\* empty string for ever: the prompt then ends only if the empty answer is
\* accepted.
query(lines, tried) ==
    Only([hits \in {{i \in 1..Len(lines) : tried[i].st # "err"}} |->
        IF hits # {}
        THEN Only([i \in {CHOOSE i \in hits : \A j \in hits : i <= j} |->
                 [st |-> tried[i].st, val |-> tried[i].val,
                  rest |-> SubSeq(lines, i + 1, Len(lines))]])
        ELSE Only([eof \in {tried[Len(lines) + 1]} |->
                 IF eof.st = "err" THEN [st |-> "hang", val |-> <<>>, rest |-> <<>>]
                 ELSE [st |-> eof.st, val |-> eof.val, rest |-> <<>>]])])

\* The closure of the due prompt: the date given or today, the time given or
\* now, as a timestamp of the local time zone.
due_value(v) ==
    Only([date \in {IF v[1].some THEN parse_date(v[1].v)
                    ELSE [ok |-> TRUE, val |-> NowDay]} |->
    Only([time \in {IF v[2].some \/ v[3].some
                    THEN parse_time(IF v[2].some THEN v[2].v ELSE v[3].v)
                    ELSE [ok |-> TRUE, val |-> NowSec]} |->
        IF ~date.ok THEN Err
        ELSE IF ~time.ok THEN Err
        ELSE Val(local_timestamp(date.val, time.val))])])

\* A closure of add's due prompt that takes the clock for every answer
due_add_now(line) == Val(Now)

due_add(line) ==
    Only([m \in {due_re(line)} |-> IF m.ok THEN due_value(m.caps) ELSE Err])

\* handle_edit: the answer is taken only when the date group is set.
due_edit(line, original) ==
    Only([m \in {due_re_edit(line)} |->
        IF ~m.ok THEN Err
        ELSE IF ~m.caps[1].some \/ Trim(m.caps[1].v) = <<>> THEN Val(original)
        ELSE due_value(m.caps)])

\* h * 3600 + m * 60 + s over parsed numbers, left to right.  checked: the
\* build panics on overflow (debug); otherwise the arithmetic wraps (release).
hms(h, m, sc, checked) ==
    Only([hs \in {I64MulConst(h, 3600)} |->
    Only([ms \in {I64MulConst(m, 60)} |->
    Only([s1 \in {I64Add(hs.val, ms.val)} |->
    Only([s2 \in {I64Add(s1.val, sc)} |->
        IF checked /\ (hs.ovf \/ ms.ovf \/ s1.ovf \/ s2.ovf) THEN Panic
        ELSE Val(s2.val)])])])])
\* v[i].clone().unwrap_or("0".into()).parse::<i64>()
group_i64(c) == parse_i64(IF c.some THEN c.v ELSE Str(<<"0">>))

\* The closure of the estimated-time prompt: an absent group counts as "0", a
\* number that does not parse is an error.
est_value(v, checked) ==
    Only([h \in {group_i64(v[1])} |->
    Only([m \in {group_i64(v[2])} |->
    Only([sc \in {group_i64(v[3])} |->
        IF ~h.ok THEN Err
        ELSE IF checked /\ I64MulConst(h.val, 3600).ovf THEN Panic
        ELSE IF ~m.ok THEN Err
        ELSE Only([hm \in {hms(h.val, m.val, I64(0), checked)} |->
                 IF hm.st = "panic" THEN Panic
                 ELSE IF ~sc.ok THEN Err
                 ELSE Only([total \in {I64Add(hm.val, sc.val)} |->
                          IF checked /\ total.ovf THEN Panic ELSE Val(total.val)])])])])])

est_add(line, checked) ==
    Only([m \in {time_re(line)} |-> IF m.ok THEN est_value(m.caps, checked) ELSE Err])

\* handle_edit: the answer is taken only when the hours group is set.
est_edit(line, original, checked) ==
    Only([m \in {time_re(line)} |->
        IF ~m.ok THEN Err
        ELSE IF ~m.caps[1].some \/ Trim(m.caps[1].v) = <<>> THEN Val(original)
        ELSE est_value(m.caps, checked)])

\* The closure of the name and description prompts of handle_add: the group
\* of (.*) is always set, so every answer is taken.
text_add(line) ==
    Only([v \in {any_re(line).caps} |-> IF v[1].some THEN Val(v[1].v) ELSE Err])

\* A closure of edit's name and description prompts that takes every answer,
\* the empty one too
text_edit_taking(line, original) ==
    Only([v \in {any_re(line).caps} |->
        Val(Trim(IF v[1].some THEN v[1].v ELSE <<>>))])

\* The closure of the name and description prompts of handle_edit
text_edit(line, original) ==
    Only([v \in {any_re(line).caps} |->
    Only([input \in {Trim(IF v[1].some THEN v[1].v ELSE <<>>)} |->
        IF input = <<>> THEN Val(original) ELSE Val(input)])])

(***************************************************************************)
(* The handlers (main.rs).  Each yields the error or "Ok", the message it  *)
(* prints on success, the tasks it prints or writes, and the file system   *)
(* it leaves.  "Panic" is the abort of a build that checks arithmetic      *)
(* overflow, "Hang" a prompt that asks for ever.                           *)
(***************************************************************************)

Result(res, msg, out, f) == [res |-> res, msg |-> msg, out |-> out, fs |-> f]

Fail(res, f) == Result(res, "", <<>>, f)

\* args[i] of the source (0-based)
Arg(args, i) == args[i + 1]

\* The optional [file] argument at position k, or ./task_list
file_path(args, k) == IF Len(args) = k THEN DefaultPath ELSE Arg(args, k)
\* The ? of a prompt that gave no value: it never ends, or the closure
\* panicked
Stopped(q, f) == Fail(IF q.st = "hang" THEN "Hang" ELSE "Panic", f)

\* handle_add
handle_add(f, args, stdin, checked) ==
    IF Len(args) < 2 THEN Fail("InvalidArguments", f)
    ELSE
    Only([path \in {file_path(args, 2)} |->
    Only([loaded \in {IF exists(f, path) THEN read_tasks(f, path)
                      ELSE [res |-> "Ok", tasks |-> <<>>]} |->
        IF loaded.res # "Ok" THEN Fail(loaded.res, f)
        ELSE
    Only([id \in {I64Add(max_id(loaded.tasks), I64(1))} |->
        IF checked /\ id.ovf THEN Fail("Panic", f)
        ELSE
    Only([due \in {query(stdin, [i \in 1..(Len(stdin) + 1) |->
                                    due_add(Answers(stdin)[i])])} |->
        IF due.st # "ok" THEN Stopped(due, f)
        ELSE
    Only([est \in {query(due.rest, [i \in 1..(Len(due.rest) + 1) |->
                                       est_add(Answers(due.rest)[i], checked)])} |->
        IF est.st # "ok" THEN Stopped(est, f)
        ELSE
    Only([name \in {query(est.rest, [i \in 1..(Len(est.rest) + 1) |->
                                        text_add(Answers(est.rest)[i])])} |->
        IF name.st # "ok" THEN Stopped(name, f)
        ELSE
    Only([desc \in {query(name.rest, [i \in 1..(Len(name.rest) + 1) |->
                                         text_add(Answers(name.rest)[i])])} |->
        IF desc.st # "ok" THEN Stopped(desc, f)
        ELSE
    Only([task \in {[with_id(id.val) EXCEPT !.deadline = due.val,
                                            !.estimated_time = est.val,
                                            !.name = name.val,
                                            !.description = desc.val]} |->
        Result("Ok", "added", <<task>>, save_tasks(f, <<task>>, path, FALSE))
    ])])])])])])])])

\* Task::get_time_left
get_time_left(t) == I64Sub(t.deadline, Now).val

\* The comparison of handle_list's sort_by: a goes before b
list_before(a, b) ==
    Only([ta \in {get_time_left(a)} |-> Only([tb \in {get_time_left(b)} |->
        I64Lt(ta, tb) \/ (ta = tb /\ I64Lt(a.id, b.id))])])

\* tasks.sort_by(...): a stable sort
sort_tasks(tasks) ==
    Only([rank \in {[i \in 1..Len(tasks) |->
                       Cardinality({j \in 1..Len(tasks) :
                           \/ list_before(tasks[j], tasks[i])
                           \/ ~list_before(tasks[i], tasks[j]) /\ j < i}) + 1]} |->
        [k \in 1..Len(tasks) |-> tasks[CHOOSE i \in 1..Len(tasks) : rank[i] = k]]])

\* handle_list: the loaded list is sorted, and the file, read again, is
\* what is printed.
handle_list(f, args) ==
    Only([path \in {file_path(args, 2)} |->
        IF ~exists(f, path) THEN Fail("NotFound", f)
        ELSE
    Only([loaded \in {read_tasks(f, path)} |->
        IF loaded.res # "Ok" THEN Fail(loaded.res, f)
        ELSE
    Only([tasks \in {sort_tasks(loaded.tasks)} |->
    Only([again \in {read_tasks(f, path)} |->
        IF again.res # "Ok" THEN Fail(again.res, f)
        ELSE Result("Ok", "listed", again.tasks, f)
    ])])])])

\* An end of remove and progress that writes the list even when it is empty
store_keep(f, tasks, path) == save_tasks(f, tasks, path, TRUE)

\* The end of remove and progress: an emptied list deletes the file, any
\* other list overwrites it.
store(f, tasks, path) ==
    IF Len(tasks) = 0 THEN remove_file(f, path) ELSE save_tasks(f, tasks, path, TRUE)

\* The start of remove, progress and edit with the [file] argument at
\* position k: the file is there, it decodes, the id argument is a number,
\* and a task has it.  The error, or the path, the tasks and the index.
NoTarget(res) == [res |-> res, path |-> <<>>, tasks |-> <<>>, index |-> 0]

Target(f, args, k) ==
    IF Len(args) < k THEN NoTarget("InvalidArguments")
    ELSE
    Only([path \in {file_path(args, k)} |->
        IF ~exists(f, path) THEN NoTarget("NotFound")
        ELSE
    Only([loaded \in {read_tasks(f, path)} |->
        IF loaded.res # "Ok" THEN NoTarget(loaded.res)
        ELSE
    Only([target_id \in {parse_i64(Arg(args, 2))} |->
        IF ~target_id.ok THEN NoTarget("Parse")
        ELSE
    Only([index \in {position(loaded.tasks, target_id.val)} |->
        IF index = 0 THEN NoTarget("TaskNotFound")
        ELSE [res |-> "Ok", path |-> path, tasks |-> loaded.tasks, index |-> index]
    ])])])])

\* handle_remove
handle_remove(f, args) ==
    Only([t \in {Target(f, args, 3)} |->
        IF t.res # "Ok" THEN Fail(t.res, f)
        ELSE Result("Ok", "removed", <<>>,
                    store(f, swap_remove(t.tasks, t.index), t.path))])

\* caps.get(i).map_or(0, |m| m.as_str().parse::<i64>().unwrap_or(0))
group_or_0(c) ==
    IF ~c.some THEN I64(0)
    ELSE Only([n \in {parse_i64(c.v)} |-> IF n.ok THEN n.val ELSE I64(0)])

\* parse_progress: the duration form (a number that does not parse counts as
\* 0), else the percent form, else an error.
parse_progress(input, task, checked) ==
    Only([t \in {time_re(input)} |->
        IF t.ok
        THEN hms(group_or_0(t.caps[1]), group_or_0(t.caps[2]), group_or_0(t.caps[3]),
                 checked)
        ELSE
    Only([pc \in {percent_re(input)} |->
        IF pc.ok
        THEN Val(F32ToI64(F32Round(F32Mul(I64ToF32(task.estimated_time),
                                          F32Div100(parse_f32(pc.caps[1].v))))))
        ELSE Err])])

\* handle_progress
handle_progress(f, args, checked) ==
    Only([t \in {Target(f, args, 4)} |->
        IF t.res # "Ok" THEN Fail(t.res, f)
        ELSE
    Only([made \in {parse_progress(Join(SubSeq(args, 4, Len(args))),
                                   t.tasks[t.index], checked)} |->
        IF made.st = "err" THEN Fail("Input", f)
        ELSE IF made.st = "panic" THEN Fail("Panic", f)
        ELSE
    Only([sum \in {I64Add(t.tasks[t.index].progress, made.val)} |->
        IF checked /\ sum.ovf THEN Fail("Panic", f)
        ELSE
    Only([tasks \in {[t.tasks EXCEPT ![t.index].progress = sum.val]} |->
    Only([completed \in {I64Ge(tasks[t.index].progress,
                               tasks[t.index].estimated_time)} |->
        Result("Ok", IF completed THEN "completed" ELSE "updated", <<>>,
               store(f, IF completed THEN remove(tasks, t.index) ELSE tasks, t.path))
    ])])])])])

\* handle_edit
handle_edit(f, args, stdin, checked) ==
    Only([t \in {Target(f, args, 3)} |->
        IF t.res # "Ok" THEN Fail(t.res, f)
        ELSE
    Only([original_task \in {t.tasks[t.index]} |->
    Only([due \in {query(stdin, [i \in 1..(Len(stdin) + 1) |->
                       due_edit(Answers(stdin)[i], original_task.deadline)])} |->
        IF due.st # "ok" THEN Stopped(due, f)
        ELSE
    Only([est \in {query(due.rest, [i \in 1..(Len(due.rest) + 1) |->
                       est_edit(Answers(due.rest)[i], original_task.estimated_time,
                                checked)])} |->
        IF est.st # "ok" THEN Stopped(est, f)
        ELSE
    Only([name \in {query(est.rest, [i \in 1..(Len(est.rest) + 1) |->
                       text_edit(Answers(est.rest)[i], original_task.name)])} |->
        IF name.st # "ok" THEN Stopped(name, f)
        ELSE
    Only([desc \in {query(name.rest, [i \in 1..(Len(name.rest) + 1) |->
                       text_edit(Answers(name.rest)[i], original_task.description)])} |->
        IF desc.st # "ok" THEN Stopped(desc, f)
        ELSE
    Only([tasks \in {[t.tasks EXCEPT ![t.index].deadline = due.val,
                                     ![t.index].estimated_time = est.val,
                                     ![t.index].name = name.val,
                                     ![t.index].description = desc.val]} |->
        Result("Ok", "edited", <<tasks[t.index]>>, save_tasks(f, tasks, t.path, TRUE))
    ])])])])])])])

\* try_main: the dispatch on args[1]
try_main(f, args, stdin, checked) ==
    IF Len(args) = 1 THEN Result("Ok", "help", <<>>, f)
    ELSE
    Only([command \in {Arg(args, 1)} |->
        IF command = Str(<<"a", "d", "d">>) THEN handle_add(f, args, stdin, checked)
        ELSE IF command = Str(<<"l", "i", "s", "t">>) THEN handle_list(f, args)
        ELSE IF command = Str(<<"r", "e", "m", "o", "v", "e">>) THEN handle_remove(f, args)
        ELSE IF command = Str(<<"p", "r", "o", "g", "r", "e", "s", "s">>)
        THEN handle_progress(f, args, checked)
        ELSE IF command = Str(<<"e", "d", "i", "t">>)
        THEN handle_edit(f, args, stdin, checked)
        ELSE Fail("InvalidCommand", f)])

(***************************************************************************)
(* The inputs of the invocations                                           *)
(***************************************************************************)

\* The largest id add may hand out in the model
MaxId == 2

Prog == Str(<<"t">>)

CmdAdd == Str(<<"a", "d", "d">>)

CmdList == Str(<<"l", "i", "s", "t">>)

CmdRemove == Str(<<"r", "e", "m", "o", "v", "e">>)

CmdProgress == Str(<<"p", "r", "o", "g", "r", "e", "s", "s">>)

CmdEdit == Str(<<"e", "d", "i", "t">>)

\* Ten and five seconds from now
Due10 == Str(<<"2", "0", "2", "6", "-", "1", "1", "-", "0", "1", " ",
               "1", "2", ":", "0", "0", ":", "1", "0">>)

Due5 == Str(<<"2", "0", "2", "6", "-", "1", "1", "-", "0", "1", " ",
              "1", "2", ":", "0", "0", ":", "0", "5">>)

\* The answers to the prompts of add: due, estimated time, name, description.
\* One task is due in ten seconds and takes half an hour, the other is due
\* in five seconds and takes no time.
AddStdin ==
    {<<Due10, Str(<<"3", "0", "m">>), Str(<<"a">>), Str(<<"d">>)>>,
     <<Due5, Str(<<"0", "s">>), Str(<<"a">>), Str(<<"d">>)>>}

\* A natural number in decimal digits
RECURSIVE Decimal(_)
Decimal(n) ==
    IF n < 10 THEN <<48 + n>> ELSE Decimal(n \div 10) \o <<48 + (n % 10)>>

\* The id arguments: the ids add hands out, and one it never does
IdArgs == {Decimal(i) : i \in 0..MaxId} \cup {Decimal(MaxId + 5)}

\* The amounts of progress: 900 seconds, the whole estimate, and a string of
\* neither form
Amounts == {Str(<<"1", "5", "m">>), Str(<<"1", "0", "0", "%">>), Str(<<"x">>)}

\* Four empty lines: Enter at every prompt of edit
BlankLines == <<<<>>, <<>>, <<>>, <<>>>>

\* The answers to the prompts of edit: Enter at every prompt, and a new
\* deadline and a new estimate, those of the first task of AddStdin
EditStdin == {BlankLines, <<Due10, Str(<<"0", "h", "3", "0", "m">>), <<>>, <<>>>>}

AddInputs == {[args |-> <<Prog, CmdAdd>>, stdin |-> in] : in \in AddStdin}

ListInputs == {[args |-> <<Prog, CmdList>>, stdin |-> <<>>]}

RemoveInputs == {[args |-> <<Prog, CmdRemove, id>>, stdin |-> <<>>] : id \in IdArgs}

ProgressInputs ==
    {[args |-> <<Prog, CmdProgress, id, amount>>, stdin |-> <<>>] :
        id \in IdArgs, amount \in Amounts}

EditInputs ==
    {[args |-> <<Prog, CmdEdit, id>>, stdin |-> in] : id \in IdArgs, in \in EditStdin}

(***************************************************************************)
(* The state machine: one invocation of the program a step                 *)
(***************************************************************************)

NoFiles == [q \in {} |-> <<>>]

Init ==
    /\ fs = NoFiles
    /\ last = [cmd |-> <<>>, res |-> "", msg |-> ""]
    /\ ids = [assigned |-> {}, adds |-> 0, pure |-> TRUE]

\* The tasks of a store that decodes (none when the file is missing or
\* corrupt).
Tasks(f, path) == read_tasks(f, path).tasks

\* The build of the program: overflow checks on (a debug build)
checked_build == TRUE

\* One run of the program on the file system as it is
Run(in) == try_main(fs, in.args, in.stdin, checked_build)

\* The step of a run with the result r: the file system it leaves, and the
\* history.
Ran(in, r) ==
    /\ fs' = r.fs
    /\ last' = [cmd |-> Arg(in.args, 1), res |-> r.res, msg |-> r.msg]
    /\ ids' = IF r.res = "Ok" /\ r.msg = "added"
              THEN [assigned |-> ids.assigned \cup {r.out[1].id},
                    adds     |-> IF ids.pure THEN ids.adds + 1 ELSE 0,
                    pure     |-> ids.pure]
              ELSE [assigned |-> ids.assigned, adds |-> 0, pure |-> FALSE]

\* add, while the id it would hand out is within MaxId
Add ==
    \E in \in AddInputs :
        /\ I64Lt(max_id(Tasks(fs, DefaultPath)), I64(MaxId))
        /\ \E r \in {Run(in)} : Ran(in, r)

List == \E in \in ListInputs : \E r \in {Run(in)} : Ran(in, r)

Remove == \E in \in RemoveInputs : \E r \in {Run(in)} : Ran(in, r)

Progress == \E in \in ProgressInputs : \E r \in {Run(in)} : Ran(in, r)

Edit == \E in \in EditInputs : \E r \in {Run(in)} : Ran(in, r)

Next == Add \/ List \/ Remove \/ Progress \/ Edit

Spec == Init /\ [][Next]_vars

\* The operations that write the store, without list, which only reads it
NextChange == Add \/ Remove \/ Progress \/ Edit

SpecChange == Init /\ [][NextChange]_vars

(***************************************************************************)
(* A store that gets damaged: the file of a store that decodes loses its   *)
(* last bytes, or a byte of a name becomes one that no UTF-8 text holds    *)
(***************************************************************************)

\* The most bytes a damaged file loses
MaxCut == 2

\* Where the name of the first record begins: after four i64 fields and the
\* length of the name
NameAt == 5 * WordBytes + 1

Truncated(bytes, n) == SubSeq(bytes, 1, Len(bytes) - n)

\* 0xFF occurs in no UTF-8 text
BadUtf8(bytes) == [bytes EXCEPT ![NameAt] = 255]

Damaged(bytes, name) ==
    {Truncated(bytes, n) : n \in 1..MaxCut}
        \cup (IF Len(name) > 0 THEN {BadUtf8(bytes)} ELSE {})

Corrupt ==
    /\ exists(fs, DefaultPath)
    /\ \E loaded \in {read_tasks(fs, DefaultPath)} :
        /\ loaded.res = "Ok"
        /\ Len(loaded.tasks) > 0
        /\ \E bytes \in Damaged(fs[DefaultPath], loaded.tasks[1].name) :
               fs' = [fs EXCEPT ![DefaultPath] = bytes]
    /\ last' = [cmd |-> <<>>, res |-> "", msg |-> "corrupt"]
    /\ ids' = [assigned |-> ids.assigned, adds |-> 0, pure |-> FALSE]

NextCorrupt == Add \/ List \/ Remove \/ Progress \/ Edit \/ Corrupt

SpecCorrupt == Init /\ [][NextCorrupt]_vars

(***************************************************************************)
(* Properties                                                              *)
(***************************************************************************)

\* The tasks of ./task_list, the result of reading it, and the ids in it
Store == Tasks(fs, DefaultPath)

StoreRes == read_tasks(fs, DefaultPath).res

\* The ids of a list of tasks
Ids(tasks) == {tasks[i].id : i \in 1..Len(tasks)}

StoreIds == Ids(Store)

\* The id argument of remove, progress and edit, as a number
IdOf(in) == parse_i64(Arg(in.args, 2))

\* The tasks that do not have an id, in their order
Without(tasks, id) == SelectSeq(tasks, LAMBDA t : t.id # id)

\* C1: starting from a missing store file, after any sequence of add,
\* remove, progress and edit, no two tasks of the store file have the same
\* id.
IdsUnique ==
    \A tasks \in {Store} :
        \A i, j \in 1..Len(tasks) : tasks[i].id = tasks[j].id => i = j

\* An add into a store that other operations have changed, leaving two or
\* more tasks
IdsUniqueWitness ==
    last.cmd = CmdAdd /\ last.res = "Ok" /\ ~ids.pure /\ Len(Store) >= 2

\* C2: after any sequence of add, progress, edit and remove, every task of
\* the store file has progress < estimated_time.
ProgressBelowEstimate ==
    \A tasks \in {Store} :
        \A i \in 1..Len(tasks) : I64Lt(tasks[i].progress, tasks[i].estimated_time)

\* The completing case: progress on the id of a stored task, with an amount that
\* resolves to D, where progress + D >= estimated_time
Completing(in, tasks) ==
    /\ IdOf(in).ok
    /\ IdOf(in).val \in Ids(tasks)
    /\ \E t \in {tasks[position(tasks, IdOf(in).val)]} :
       \E made \in {parse_progress(Arg(in.args, 3), t, checked_build)} :
           /\ made.st = "ok"
           /\ \E sum \in {I64Add(t.progress, made.val)} :
                  ~sum.ovf /\ I64Ge(sum.val, t.estimated_time)

\* C3: a progress on the id of a stored task whose progress + D reaches the
\* estimated time reports completion, and leaves in the store the other
\* tasks, with their fields, in their order, and no task of that id.
CompletedIsRemoved ==
    \A tasks \in {Store} :
        \A in \in ProgressInputs :
            Completing(in, tasks) =>
                \A r \in {Run(in)} :
                    /\ r.res = "Ok"
                    /\ r.msg = "completed"
                    /\ Tasks(r.fs, DefaultPath) = Without(tasks, IdOf(in).val)

\* A completing progress that left two or more tasks
CompletedIsRemovedWitness ==
    last.cmd = CmdProgress /\ last.res = "Ok" /\ last.msg = "completed"
        /\ Len(Store) >= 2

\* C4, as the specification states it: the id that add assigns differs from
\* every id that add assigned before, those of removed and completed tasks
\* included.
IdsNeverReused ==
    [][(last'.cmd = CmdAdd /\ last'.res = "Ok") => ids'.assigned # ids.assigned]_vars

\* C4: the id that add assigns is larger than every id in the store at that
\* time (an id of a removed or completed task comes back when no larger id
\* is left in the store).
AddIdAboveStore ==
    [][(last'.cmd = CmdAdd /\ last'.res = "Ok") =>
          \A tasks \in {Tasks(fs', DefaultPath)} :
              \A id \in StoreIds : I64Lt(id, tasks[Len(tasks)].id)]_vars

\* An add into a store of one or more tasks from which an id handed out
\* before has gone
AddIdAboveStoreWitness ==
    /\ last.cmd = CmdAdd /\ last.res = "Ok"
    /\ Len(Store) >= 2
    /\ \E id \in ids.assigned : id \notin StoreIds

\* C5: starting from a missing store file, after N adds and no other
\* operation, the store holds N tasks with the ids 0, 1, ..., N-1 in file
\* order.
AddsCountUp ==
    ids.pure =>
        \A tasks \in {Store} :
            /\ Len(tasks) = ids.adds
            /\ \A i \in 1..Len(tasks) : tasks[i].id = I64(i - 1)

AddsCountUpWitness == ids.pure /\ ids.adds = MaxId + 1

\* C6: a remove or a completing progress that takes the last task out leaves
\* no store file; so a store file that exists holds one task or more.
EmptyStoreDeleted ==
    \A loaded \in {read_tasks(fs, DefaultPath)} :
    /\ exists(fs, DefaultPath) => loaded.res = "Ok" /\ Len(loaded.tasks) >= 1
    /\ Len(loaded.tasks) = 1 =>
           \A in \in RemoveInputs \cup ProgressInputs :
               \A r \in {Run(in)} :
                   r.msg \in {"removed", "completed"} => ~exists(r.fs, DefaultPath)

\* A completing progress that took the last task out
EmptyStoreDeletedWitness ==
    last.cmd = CmdProgress /\ last.msg = "completed" /\ ~exists(fs, DefaultPath)

\* C7: the tasks that list outputs are in nondecreasing deadline - now, and
\* those of equal deadline - now in ascending id.
ListIsSorted ==
    \A in \in ListInputs :
        \A r \in {Run(in)} :
            \A i, j \in 1..Len(r.out) :
                i < j =>
                    \/ I64Lt(get_time_left(r.out[i]), get_time_left(r.out[j]))
                    \/ /\ get_time_left(r.out[i]) = get_time_left(r.out[j])
                       /\ I64Lt(r.out[i].id, r.out[j].id)

\* The inputs of the five operations
AllInputs ==
    AddInputs \cup ListInputs \cup RemoveInputs \cup ProgressInputs \cup EditInputs

\* The store file was damaged, and no operation has succeeded since
Corrupted == last.msg = "corrupt" \/ last.res = "InvalidFileFormat"

MissingStore ==
    ~exists(fs, DefaultPath) =>
        /\ \A in \in AllInputs \ AddInputs :
               \A r \in {Run(in)} : r.res = "NotFound" /\ r.fs = fs
        /\ \A in \in AddInputs :
               \A r \in {Run(in)} :
                   /\ r.res = "Ok"
                   /\ exists(r.fs, DefaultPath)
                   /\ \A loaded \in {read_tasks(r.fs, DefaultPath)} :
                          /\ loaded.res = "Ok"
                          /\ loaded.tasks = r.out
                          /\ Len(loaded.tasks) = 1
                          /\ loaded.tasks[1].id = I64(0)

\* An edit that failed for want of a file, after tasks had been added
MissingStoreWitness ==
    /\ last.cmd = CmdEdit /\ last.res = "NotFound"
    /\ ~exists(fs, DefaultPath)
    /\ ids.assigned # {}

\* C10: on a store that exists, remove, progress and edit with an id that
\* no stored task has fail with TaskNotFound, and progress with an amount of
\* neither the duration nor the percent form fails with the error of an
\* invalid progress format; the store file stays as it was.
FailuresLeaveStore ==
    exists(fs, DefaultPath) /\ StoreRes = "Ok" =>
        \A stored \in {StoreIds} :
        /\ \A in \in RemoveInputs \cup ProgressInputs \cup EditInputs :
               IdOf(in).ok /\ IdOf(in).val \notin stored =>
                   \A r \in {Run(in)} : r.res = "TaskNotFound" /\ r.fs = fs
        /\ \A in \in ProgressInputs :
               /\ IdOf(in).ok /\ IdOf(in).val \in stored
               /\ ~time_re(Arg(in.args, 3)).ok
               /\ ~percent_re(Arg(in.args, 3)).ok
               => \A r \in {Run(in)} : r.res = "Input" /\ r.fs = fs

\* A progress of no valid amount on a stored task, after a remove of an id
\* that is not in the store would have failed too
FailuresLeaveStoreWitness ==
    /\ last.cmd = CmdProgress /\ last.res = "Input"
    /\ exists(fs, DefaultPath)
    /\ \E in \in RemoveInputs : IdOf(in).val \notin StoreIds

(***************************************************************************)
(* The encoding alone: lists of tasks written over the store and read back *)
(***************************************************************************)

\* The longest list written
MaxLen == 2

\* The ends and the middle of the i64 range
FieldValues == <<I64(0), I64(-1), I64Max, I64Min>>

\* Texts of no byte, and of one character of two bytes
CodecNames == {<<>>, <<195, 169>>}

CodecDescriptions == {<<>>, Str(<<"d">>)}

\* Tasks whose four numbers are the field values, in turn
CodecTasks ==
    {with_details(FieldValues[k], FieldValues[(k % 4) + 1],
                  FieldValues[((k + 1) % 4) + 1], FieldValues[((k + 2) % 4) + 1],
                  name, description) :
        k \in 1..4, name \in CodecNames, description \in CodecDescriptions}

CodecLists == UNION {[1..n -> CodecTasks] : n \in 0..MaxLen}

\* save_tasks(&tasks, file_path, true), over a missing store or one of fewer
\* than MaxLen tasks
Save ==
    /\ Len(Tasks(fs, DefaultPath)) < MaxLen
    /\ \E tasks \in CodecLists :
        /\ fs' = save_tasks(fs, tasks, DefaultPath, TRUE)
        /\ last' = [cmd |-> <<>>, res |-> "Ok", msg |-> "saved", out |-> tasks]
        /\ UNCHANGED ids

NextCodec == Save

SpecCodec == Init /\ [][NextCodec]_vars

\* The bytes of one record: six words of eight bytes, and the two texts
RecordSize(t) == 6 * WordBytes + Len(t.name) + Len(t.description)

RECURSIVE SizeOf(_)
SizeOf(tasks) ==
    IF Len(tasks) = 0 THEN 0 ELSE RecordSize(Head(tasks)) + SizeOf(Tail(tasks))

\* C11: for every list of tasks, overwriting the store with it and reading
\* the store gives the list, field for field and in order, and the file is
\* no longer than the records read.
RoundTrip ==
    last.msg = "saved" =>
        /\ read_tasks(fs, DefaultPath) = [res |-> "Ok", tasks |-> last.out]
        /\ Len(fs[DefaultPath]) = SizeOf(last.out)

\* A list of the longest length, of a task without texts and one with a
\* name of two bytes, written over a store that held tasks
RoundTripWitness ==
    /\ last.msg = "saved"
    /\ Len(last.out) = MaxLen
    /\ last.out[1].name = <<>> /\ last.out[1].description = <<>>
    /\ Len(last.out[MaxLen].name) = 2
    /\ last.out[MaxLen].id = I64Min

\* The task of an id in a list of tasks
TaskOf(tasks, id) == tasks[position(tasks, id)]

\* edit of an id, with the answers given
EditOf(id, answers) == [args |-> <<Prog, CmdEdit, id>>, stdin |-> answers]

\* The id arguments that are ids of tasks in a list
IdArgsOf(tasks) == {id \in IdArgs : parse_i64(id).val \in Ids(tasks)}

\* C12: edit of the id of a stored task with an empty line at every prompt
\* succeeds, shows the task as it was, and leaves the bytes of the file as
\* they were.
BlankEditIsIdentity ==
    \A tasks \in {Store} :
        \A id \in IdArgsOf(tasks) :
            \A r \in {Run(EditOf(id, BlankLines))} :
                /\ r.res = "Ok"
                /\ r.out = <<TaskOf(tasks, parse_i64(id).val)>>
                /\ r.fs = fs

\* An edit that succeeded on a store of one task, of an estimate that the
\* other answers of edit do not leave
BlankEditIsIdentityWitness ==
    /\ last.cmd = CmdEdit /\ last.res = "Ok"
    /\ \E tasks \in {Store} :
           Len(tasks) = 1 /\ tasks[1].estimated_time = I64(0)

\* Answers to the estimated-time prompt, and the seconds they stand for
EstimateAnswers ==
    {<<Str(<<"3", "0", "m">>), 1800>>,
     <<Str(<<"4", "5", "s">>), 45>>,
     <<Str(<<"1", "h", " ", "3", "0", "m">>), 5400>>}

\* C13: in edit, an answer of the duration grammar to the estimated-time
\* prompt ("30m", "45s", "1h 30m") makes the stored estimated time of the
\* task h*3600 + m*60 + s of the answer.
EditTakesEstimate ==
    \A tasks \in {Store} :
        \A id \in IdArgsOf(tasks) :
            \A answer \in EstimateAnswers :
                \A r \in {Run(EditOf(id, <<<<>>, answer[1], <<>>, <<>>>>))} :
                    /\ r.res = "Ok"
                    /\ TaskOf(Tasks(r.fs, DefaultPath), parse_i64(id).val)
                           .estimated_time = I64(answer[2])

\* Seven seconds from now, as a time of day
Time7 == Str(<<"1", "2", ":", "0", "0", ":", "0", "7">>)

\* C14: in edit, an answer of a time only (HH:MM:SS) to the due prompt makes
\* the stored deadline of the task today's local date at that time.
EditTakesTime ==
    \A tasks \in {Store} :
        \A id \in IdArgsOf(tasks) :
            \A r \in {Run(EditOf(id, <<Time7, <<>>, <<>>, <<>>>>))} :
                /\ r.res = "Ok"
                /\ TaskOf(Tasks(r.fs, DefaultPath), parse_i64(id).val)
                       .deadline = I64Add(Now, I64(7)).val

(***************************************************************************)
(* parse_progress alone: amounts of both forms, on tasks of several        *)
(* estimated times                                                         *)
(***************************************************************************)

\* The largest percentage of the run of percentages tried
MaxPercent == 25

\* Estimated times, in seconds
Estimates == {0, 1, 150, 3600}

Percents == (0..MaxPercent) \cup {50, 100}

\* A task of an estimated time
Estimated(e) == with_details(I64(0), I64(0), I64(0), I64(e), <<>>, <<>>)

\* parse_progress("P%", task)
Percent ==
    \E e \in Estimates, p \in Percents :
        \E made \in {parse_progress(Decimal(p) \o Str(<<"%">>), Estimated(e),
                                    checked_build)} :
            /\ last' = [cmd |-> CmdProgress, res |-> made.st, msg |-> "percent",
                        est |-> e, given |-> p, made |-> made.val]
            /\ UNCHANGED <<fs, ids>>

\* The parts of a duration: hours, minutes, seconds, -1 for a part left out
DurationParts == {<<h, m, s>> : h \in {-1, 0, 2}, m \in {-1, 30}, s \in {-1, 45}}

\* The tokens of a duration, one a part that is there
DurationTokens(d) ==
    (IF d[1] >= 0 THEN <<Decimal(d[1]) \o Str(<<"h">>)>> ELSE <<>>)
    \o (IF d[2] >= 0 THEN <<Decimal(d[2]) \o Str(<<"m">>)>> ELSE <<>>)
    \o (IF d[3] >= 0 THEN <<Decimal(d[3]) \o Str(<<"s">>)>> ELSE <<>>)

\* The seconds of a duration
DurationSeconds(d) ==
    (IF d[1] >= 0 THEN d[1] * 3600 ELSE 0)
    + (IF d[2] >= 0 THEN d[2] * 60 ELSE 0)
    + (IF d[3] >= 0 THEN d[3] ELSE 0)

\* parse_progress("Hh Mm Ss", task)
Duration ==
    \E e \in Estimates, d \in DurationParts :
        \E made \in {parse_progress(Join(DurationTokens(d)), Estimated(e),
                                    checked_build)} :
            /\ last' = [cmd |-> CmdProgress, res |-> made.st, msg |-> "duration",
                        est |-> e, given |-> d, made |-> made.val]
            /\ UNCHANGED <<fs, ids>>

NextAmount == Percent \/ Duration

SpecAmount == Init /\ [][NextAmount]_vars

\* C15: an amount "P%" on a task of estimated time E adds round(E * P / 100)
\* seconds, and an amount of the duration form adds h*3600 + m*60 + s.
AmountIsExact ==
    /\ last.msg = "percent" =>
           /\ last.res = "ok"
           /\ last.made = I64((2 * last.est * last.given + 100) \div 200)
    /\ last.msg = "duration" =>
           /\ last.res = "ok"
           /\ last.made = I64(DurationSeconds(last.given))

\* progress of an id by the amount tokens given, with the arguments after
\* them
ProgressOf(id, tokens, more) ==
    [args |-> <<Prog, CmdProgress, id>> \o tokens \o more, stdin |-> <<>>]

\* C16: `progress <id> 2h 30m` with no file argument adds 9000 seconds to
\* the task in ./task_list (completing it when that reaches its estimate),
\* and `progress <id> 15m <file>` does to the file what `progress <id> 15m`
\* does to ./task_list.
ProgressTakesTokens ==
    \A tasks \in {Store} :
        \A id \in IdArgsOf(tasks) :
            /\ \A r \in {Run(ProgressOf(id, <<Str(<<"2", "h">>),
                                              Str(<<"3", "0", "m">>)>>, <<>>))} :
               \A t \in {TaskOf(tasks, parse_i64(id).val)} :
                   /\ r.res = "Ok"
                   /\ \A left \in {Tasks(r.fs, DefaultPath)} :
                          IF I64Ge(I64Add(t.progress, I64(9000)).val, t.estimated_time)
                          THEN left = Without(tasks, t.id)
                          ELSE TaskOf(left, t.id).progress
                                   = I64Add(t.progress, I64(9000)).val
            /\ Run(ProgressOf(id, <<Str(<<"1", "5", "m">>)>>, <<DefaultPath>>))
                   = Run(ProgressOf(id, <<Str(<<"1", "5", "m">>)>>, <<>>))

\* add, with the answers given, in a build with or without overflow checks
AddOf(answers) == [args |-> <<Prog, CmdAdd>>, stdin |-> answers]

\* The tasks add leaves in ./task_list when it succeeds (none when it fails)
Added(r) == IF r.res = "Ok" THEN Tasks(r.fs, DefaultPath) ELSE <<>>

\* C17: every stored task has a name and a description that are not empty
\* after trimming; add asks again instead of taking an empty name or
\* description.
TextsNotBlank ==
    \A answers \in {<<Due10, Str(<<"3", "0", "m">>), <<>>, Str(<<"a">>), <<>>,
                      Str(<<"d">>)>>} :
        \A tasks \in {Added(Run(AddOf(answers)))} :
            \A i \in 1..Len(tasks) :
                Trim(tasks[i].name) # <<>> /\ Trim(tasks[i].description) # <<>>

\* 2562047788015216 hours: times 3600, one more than an i64 holds
HugeHours ==
    Str(<<"2", "5", "6", "2", "0", "4", "7", "7", "8", "8", "0", "1", "5", "2",
          "1", "6", "h">>)

\* C18: every stored task has progress >= 0 and estimated_time >= 0,
\* whichever way the program was built.
NeverNegative ==
    \A checked \in BOOLEAN :
        \A r \in {try_main(fs, <<Prog, CmdAdd>>,
                           <<Due10, HugeHours, Str(<<"a">>), Str(<<"d">>)>>, checked)} :
            \A tasks \in {Tasks(r.fs, DefaultPath)} :
                \A i \in 1..Len(tasks) :
                    /\ ~I64IsNeg(tasks[i].progress)
                    /\ ~I64IsNeg(tasks[i].estimated_time)

\* Inputs that end early: no line at all, and one line that no prompt takes
EndedInputs == {<<>>, <<Str(<<"x">>)>>}

\* C19: every prompt of add and of edit comes to an end when the input
\* ends: no run asks for ever.
PromptsEnd ==
    \A answers \in EndedInputs :
        /\ Run(AddOf(answers)).res # "Hang"
        /\ \A id \in IdArgsOf(Store) : Run(EditOf(id, answers)).res # "Hang"

\* Answers to the prompts of add, and the task they describe: the seconds
\* from now to the deadline, the estimated seconds, the name, the description
Supplied ==
    {[answers |-> <<Due10, Str(<<"3", "0", "m">>), Str(<<"a", " ", "b">>),
                    Str(<<"d">>)>>,
      due |-> 10, est |-> 1800, name |-> Str(<<"a", " ", "b">>),
      description |-> Str(<<"d">>)],
     [answers |-> <<Due5, Str(<<"1", "h", " ", "1", "s">>), Str(<<"a">>),
                    <<195, 169>>>>,
      due |-> 5, est |-> 3601, name |-> Str(<<"a">>), description |-> <<195, 169>>]}

\* C20: a successful add on a store that exists leaves the bytes of the
\* records there as they were and writes one record after them: progress 0,
\* the largest stored id plus one, and the deadline, estimated time, name
\* and description supplied.
AddAppends ==
    exists(fs, DefaultPath) /\ StoreRes = "Ok" =>
        \A tasks \in {Store} :
            \A s \in Supplied :
                \A r \in {Run(AddOf(s.answers))} :
                    /\ r.res = "Ok"
                    /\ \E m \in Ids(tasks) :
                           /\ \A id \in Ids(tasks) : I64Le(id, m)
                           /\ \A new \in {with_details(I64Add(m, I64(1)).val, I64(0),
                                              I64Add(Now, I64(s.due)).val, I64(s.est),
                                              s.name, s.description)} :
                                  /\ r.fs[DefaultPath] = fs[DefaultPath] \o serialize(new)
                                  /\ Tasks(r.fs, DefaultPath) = Append(tasks, new)

\* An add that filled the store up to the largest id of the model
AddAppendsWitness ==
    last.cmd = CmdAdd /\ last.res = "Ok" /\ Len(Store) = MaxId + 1

\* Amounts of progress that leave a task of half an hour unfinished, some of
\* them twice over
PartAmounts == {Str(<<"1", "5", "m">>), Str(<<"1", "s">>), Str(<<"1", "0", "%">>)}

\* The updating case: progress on the id of a stored task, with an amount
\* that resolves to D, where progress + D < estimated_time
Updating(t, made) ==
    /\ made.st = "ok"
    /\ \E sum \in {I64Add(t.progress, made.val)} :
           ~sum.ovf /\ I64Lt(sum.val, t.estimated_time)

\* C21: a progress on the id of a stored task whose progress + D stays below
\* the estimated time reports an update and leaves the store with as many
\* tasks, in the same order: the task of that id with its progress + D and
\* its other fields as they were, and every other task as it was.
ProgressUpdates ==
    \A tasks \in {Store} :
        \A id \in IdArgsOf(tasks) :
            \A amount \in PartAmounts :
                \A t \in {TaskOf(tasks, parse_i64(id).val)} :
                \A made \in {parse_progress(amount, t, checked_build)} :
                    Updating(t, made) =>
                        \A r \in {Run(ProgressOf(id, <<amount>>, <<>>))} :
                        \A left \in {Tasks(r.fs, DefaultPath)} :
                            /\ r.res = "Ok"
                            /\ r.msg = "updated"
                            /\ Len(left) = Len(tasks)
                            /\ \A i \in 1..Len(tasks) :
                                   /\ left[i].id = tasks[i].id
                                   /\ left[i].deadline = tasks[i].deadline
                                   /\ left[i].estimated_time = tasks[i].estimated_time
                                   /\ left[i].name = tasks[i].name
                                   /\ left[i].description = tasks[i].description
                                   /\ left[i].progress =
                                          IF tasks[i].id = t.id
                                          THEN I64Add(t.progress, made.val).val
                                          ELSE tasks[i].progress

\* `progress <id> 15m` has left a task of half an hour with 900 seconds of
\* progress, in a store of two tasks or more
ProgressUpdatesWitness ==
    /\ last.cmd = CmdProgress /\ last.res = "Ok" /\ last.msg = "updated"
    /\ \E tasks \in {Store} :
           /\ Len(tasks) >= 2
           /\ \E i \in 1..Len(tasks) :
                  /\ tasks[i].estimated_time = I64(1800)
                  /\ tasks[i].progress = I64(900)

\* Answers to the prompts of edit: every field anew, and an estimate of
\* nothing under a longer name
EditAnswers ==
    {<<Due5, Str(<<"1", "h", " ", "3", "0", "m">>), Str(<<"b">>), Str(<<"c">>)>>,
     <<<<>>, Str(<<"0", "h">>), Str(<<"a", " ", "b">>), <<>>>>}

\* C22: an edit that succeeds leaves the store with as many tasks, in the
\* same order, the task of the id with its id and its progress, and every
\* other task as it was, whatever the answers for deadline, estimated time,
\* name and description.
EditKeepsRest ==
    \A tasks \in {Store} :
        \A id \in IdArgsOf(tasks) :
            \A answers \in EditAnswers :
                \A r \in {Run(EditOf(id, answers))} :
                    r.res = "Ok" =>
                        \A left \in {Tasks(r.fs, DefaultPath)} :
                            /\ Len(left) = Len(tasks)
                            /\ \A i \in 1..Len(tasks) :
                                   /\ left[i].id = tasks[i].id
                                   /\ left[i].progress = tasks[i].progress
                                   /\ tasks[i].id # parse_i64(id).val =>
                                          left[i] = tasks[i]

\* An edit has given a task with progress a new deadline and a new estimate,
\* in a store of two tasks or more
EditKeepsRestWitness ==
    /\ last.cmd = CmdEdit /\ last.res = "Ok"
    /\ \E tasks \in {Store} :
           /\ Len(tasks) >= 2
           /\ \E i \in 1..Len(tasks) :
                  /\ tasks[i].progress = I64(900)
                  /\ tasks[i].estimated_time = I64(1800)
                  /\ tasks[i].deadline = local_timestamp(NowDay, NowSec + 10)

\* How many times a task occurs in a list
Count(tasks, t) == Cardinality({i \in 1..Len(tasks) : tasks[i] = t})

\* C23: a remove of the id of a task in a store of two tasks or more
\* succeeds and leaves one task fewer: every task occurs in the store as
\* many times as among the tasks of the other ids before, with its fields,
\* in whatever order.
RemoveTakesOne ==
    \A tasks \in {Store} :
        Len(tasks) > 1 =>
            \A id \in IdArgsOf(tasks) :
                \A r \in {Run([args |-> <<Prog, CmdRemove, id>>, stdin |-> <<>>])} :
                \A left \in {Tasks(r.fs, DefaultPath)} :
                \A rest \in {Without(tasks, parse_i64(id).val)} :
                    /\ r.res = "Ok"
                    /\ Len(left) = Len(tasks) - 1
                    /\ \A i \in 1..Len(tasks) : Count(left, tasks[i]) = Count(rest, tasks[i])
                    /\ \A i \in 1..Len(left) : Count(left, left[i]) = Count(rest, left[i])

\* A remove has left two tasks, the one added later in front
RemoveTakesOneWitness ==
    /\ last.cmd = CmdRemove /\ last.res = "Ok"
    /\ \E tasks \in {Store} :
           Len(tasks) = 2 /\ I64Lt(tasks[2].id, tasks[1].id)

(***************************************************************************)
(* Two invocations at once on ./task_list.  Each one loads (exists and     *)
(* read_tasks, then its prompts and its arithmetic), and later writes:     *)
(* remove_file, or save_tasks, which opens the file and then writes the    *)
(* records one write_all at a time.  The steps of the two interleave.      *)
(* fs is the file system; ids holds the two invocations; last.writer is    *)
(* the invocation of the latest step of a write.                           *)
(***************************************************************************)

Procs == {1, 2}

\* The most tasks the store holds when the two invocations start
RaceStock == 2

\* The file system after n adds of a task of half an hour
RECURSIVE Stocked(_)
Stocked(n) ==
    IF n = 0 THEN NoFiles
    ELSE try_main(Stocked(n - 1), <<Prog, CmdAdd>>,
                  <<Due10, Str(<<"3", "0", "m">>), Str(<<"a">>), Str(<<"d">>)>>,
                  checked_build).fs

InitRace ==
    /\ fs \in {Stocked(n) : n \in 0..RaceStock}
    /\ last = [cmd |-> <<>>, res |-> "", msg |-> "", writer |-> 0]
    /\ ids = [p \in Procs |->
                 [pc |-> "idle", res |-> "", kind |-> "", recs |-> <<>>, off |-> 0,
                  live |-> FALSE, view |-> NoFiles]]

\* An invocation after its load, with the result r that it would have alone
\* on the file system it loaded from: a failure ends it; add will append its
\* task; remove, progress and edit will delete the file when their list is
\* empty and will write their list over it otherwise.
Loaded(in, r) ==
    [pc   |-> IF r.res = "Ok" THEN "loaded" ELSE "done",
     res  |-> r.res,
     kind |-> IF r.res # "Ok" THEN ""
              ELSE IF Arg(in.args, 1) = CmdAdd THEN "append"
              ELSE IF exists(r.fs, DefaultPath) THEN "overwrite" ELSE "unlink",
     recs |-> IF r.res # "Ok" THEN <<>>
              ELSE IF Arg(in.args, 1) = CmdAdd THEN r.out
              ELSE Tasks(r.fs, DefaultPath),
     off  |-> 0,
     live |-> FALSE,
     view |-> r.fs]

Load(p) ==
    /\ ids[p].pc = "idle"
    /\ \E in \in AddInputs \cup RemoveInputs \cup ProgressInputs \cup EditInputs :
       \E r \in {Run(in)} :
           /\ ids' = [ids EXCEPT ![p] = Loaded(in, r)]
           /\ last' = [last EXCEPT !.cmd = Arg(in.args, 1), !.res = r.res, !.msg = "load"]
    /\ UNCHANGED fs

\* OpenOptions::open: the file is created when missing, and emptied unless
\* the mode is append
Open(p) ==
    /\ ids[p].pc = "loaded"
    /\ ids[p].kind \in {"append", "overwrite"}
    /\ fs' = save_tasks(fs, <<>>, DefaultPath, ids[p].kind = "overwrite")
    /\ ids' = [ids EXCEPT ![p].pc = "open", ![p].live = TRUE]
    /\ last' = [last EXCEPT !.msg = "open", !.writer = p]

\* remove_file: an error when the file is missing; the file an invocation
\* holds open is then no longer the one of the path
Unlink(p) ==
    /\ ids[p].pc = "loaded"
    /\ ids[p].kind = "unlink"
    /\ IF exists(fs, DefaultPath)
       THEN /\ fs' = remove_file(fs, DefaultPath)
            /\ ids' = [q \in Procs |->
                          IF q = p THEN [ids[q] EXCEPT !.pc = "done"]
                          ELSE [ids[q] EXCEPT !.live = FALSE]]
       ELSE /\ fs' = fs
            /\ ids' = [ids EXCEPT ![p].pc = "done", ![p].res = "NotFound"]
    /\ last' = [last EXCEPT !.msg = "unlink", !.writer = p]

\* A write of data at an offset of a file: the bytes between the end of the
\* file and the offset are zero
write_at(bytes, off, data) ==
    [i \in 1..(IF Len(bytes) > off + Len(data) THEN Len(bytes) ELSE off + Len(data)) |->
        IF i > off /\ i <= off + Len(data) THEN data[i - off]
        ELSE IF i <= Len(bytes) THEN bytes[i] ELSE 0]

\* file.write_all(&task.serialize()) of the next record: at the end of the
\* file in append mode, at the offset of the handle otherwise
Write(p) ==
    /\ ids[p].pc = "open"
    /\ \E data \in {serialize(Head(ids[p].recs))} :
        /\ fs' = IF ~ids[p].live THEN fs
                 ELSE IF ids[p].kind = "append"
                 THEN save_tasks(fs, <<Head(ids[p].recs)>>, DefaultPath, FALSE)
                 ELSE [fs EXCEPT ![DefaultPath] = write_at(fs[DefaultPath], ids[p].off, data)]
        /\ ids' = [ids EXCEPT ![p].recs = Tail(ids[p].recs),
                              ![p].off = ids[p].off + Len(data),
                              ![p].pc = IF Len(ids[p].recs) = 1 THEN "done" ELSE "open"]
    /\ last' = [last EXCEPT !.msg = "write", !.writer = p]

NextRace == \E p \in Procs : Load(p) \/ Open(p) \/ Unlink(p) \/ Write(p)

SpecRace == InitRace /\ [][NextRace]_vars

\* C24: when two invocations that change the store have run, their loads
\* and their writes interleaved, the file system is the one that the
\* invocation that wrote last would have left alone, from what it loaded.
LaterWriterWins ==
    (\A p \in Procs : ids[p].pc = "done" /\ ids[p].res = "Ok") =>
        fs = ids[last.writer].view

====
